---- MODULE Spec2Model ----
(***************************************************************************)
(* Memory bank and contrastive forward pass of simcse/models.py.           *)
(*                                                                         *)
(* A tensor is modelled by its rows: a batch is a sequence of rows and a   *)
(* row is a sequence of hidden_len numbers.  The encoder is an external    *)
(* collaborator; the pooled embedding of a sentence is an opaque row that  *)
(* identifies the worker, the batch row and the view it was computed from. *)
(* Row indices of the queue are 0-based in the code; queue[i + 1] is the   *)
(* code's row i, and queue_ptr keeps the code's 0-based value.             *)
(***************************************************************************)
EXTENDS Integers, Sequences, FiniteSets, TLC

\* ------------------------------------------------------------------ bounds
\* bank_size is drawn from 1..MaxBank
MaxBank == 4
\* hidden_len is drawn from 1..MaxHidden
MaxHidden == 1
\* batches written since construction when the bank alone is exercised
MaxCalls == 4
\* batches written since construction when the whole model is exercised
MaxPassCalls == 2
\* rows of a forward pass's batch
MaxN == 2
\* tokens of a sentence
MaxSeq == 2
\* workers of a distributed run
MaxWorld == 2

VARIABLES
    bank_size,      \* model_args.bank_size
    hidden_len,     \* model_args.hidden_len
    do_stronger,    \* model_args.do_stronger
    do_mlm,         \* model_args.do_mlm
    pooler_type,    \* model_args.pooler_type ("cls" stands for cls and
                    \* cls_before_pooler, "avg" for the three avg modes)
    world,          \* dist.get_world_size(); 0: dist.is_initialized() is False
    rank,           \* dist.get_rank() + 1
    queue,          \* the registered buffer "queue": bank_size rows
    queue_ptr,      \* the registered buffer "queue_ptr"
    hist,           \* the key batches written into the queue, in call order
    writes,         \* writes[i]: how often queue row i - 1 has been assigned
    last            \* the last call: its arguments and what it returned

vars == <<bank_size, hidden_len, do_stronger, do_mlm, pooler_type, world, rank,
          queue, queue_ptr, hist, writes, last>>

config == <<bank_size, hidden_len, do_stronger, do_mlm, pooler_type, world, rank>>

\* ------------------------------------------------------------------ tensors
\* A row of width w filled with v.
FillRow(w, v) == [j \in 1..w |-> v]

\* The rows torch.randn + normalize can leave in the queue at construction:
\* their values are never equal to a value of a key batch.
RandRow(i, w) == FillRow(w, 0 - i)

\* A key batch handed to dequeue_and_enqueue by a caller: b rows of width w,
\* row i filled with a value that names the batch c and the row i.
KeyBatch(b, w, c) == [i \in 1..b |-> FillRow(w, (c - 1) * (MaxBank + 1) + i)]

\* keys.shape[0] and keys.shape[1]
BatchSize(keys) == Len(keys)
KeyWidth(keys) == IF Len(keys) = 0 THEN 0 ELSE Len(keys[1])

\* ------------------------------------------------- dequeue_and_enqueue
\* assert cls.model_args.bank_size % batch_size == 0 (batch_size > 0 here:
\* a batch of 0 rows raises ZeroDivisionError in the same expression).
PreconditionSkipped(batch_size) == TRUE
PreconditionHolds(batch_size) == bank_size % batch_size = 0

\* The rows the slice queue[ptr:ptr + batch_size, :] selects: a slice is
\* clamped at the end of the tensor, it never wraps and never raises.
SliceRows(ptr, batch_size) ==
    {i \in 1..bank_size : ptr < i /\ i <= ptr + batch_size}

\* Assigning keys to a slice of k rows of width h succeeds when keys can be
\* broadcast to the slice's shape: each dimension equal, or 1 in keys.
Broadcastable(keys, k, h) ==
    /\ BatchSize(keys) = k \/ BatchSize(keys) = 1
    /\ KeyWidth(keys) = h \/ KeyWidth(keys) = 1

\* keys broadcast to k rows of width h, element (i, j).
KeyAt(keys, i, j) ==
    keys[IF BatchSize(keys) = 1 THEN 1 ELSE i][IF KeyWidth(keys) = 1 THEN 1 ELSE j]

\* cls.queue[ptr:ptr + batch_size, :] = keys
SetSliceReversed(q, ptr, keys) ==
    [i \in 1..Len(q) |->
        IF i \in SliceRows(ptr, BatchSize(keys))
        THEN [j \in 1..Len(q[i]) |-> KeyAt(keys, ptr + BatchSize(keys) + 1 - i, j)]
        ELSE q[i]]
SetSlice(q, ptr, keys) ==
    [i \in 1..Len(q) |->
        IF i \in SliceRows(ptr, BatchSize(keys))
        THEN [j \in 1..Len(q[i]) |-> KeyAt(keys, i - ptr, j)]
        ELSE q[i]]

\* ptr = (ptr + batch_size) % cls.model_args.bank_size
MovePointerNoWrap(ptr, batch_size) == ptr + batch_size
MovePointerStuck(ptr, batch_size) == ptr
MovePointerByOne(ptr, batch_size) == (ptr + 1) % bank_size
MovePointer(ptr, batch_size) == (ptr + batch_size) % bank_size

\* The whole call on queue q and pointer ptr: the exception it raises
\* ("none" when it returns), the queue and the pointer it leaves, and the
\* rows it assigned.  An exception leaves both buffers as they were: the
\* assert precedes the assignment, and a failed assignment copies nothing.
dequeue_and_enqueue(q, ptr, keys) ==
    LET batch_size == BatchSize(keys)
        same == [err |-> "none", queue |-> q, ptr |-> ptr, rows |-> {}]
    IN  IF batch_size = 0
        THEN [same EXCEPT !.err = "ZeroDivisionError"]
        ELSE IF ~PreconditionHolds(batch_size)
        THEN [same EXCEPT !.err = "AssertionError"]
        ELSE IF ~Broadcastable(keys, Cardinality(SliceRows(ptr, batch_size)),
                               hidden_len)
        THEN [same EXCEPT !.err = "RuntimeError"]
        ELSE [err |-> "none",
              queue |-> SetSlice(q, ptr, keys),
              ptr |-> MovePointer(ptr, batch_size),
              rows |-> SliceRows(ptr, batch_size)]

\* The effect on the buffers of the dequeue_and_enqueue calls rs one
\* operation made in turn with the same keys (each call started from the
\* buffers the call before it left; only the last one may have raised).
Apply(rs, keys) ==
    LET done == {k \in 1..Len(rs) : rs[k].err = "none"}
    IN  /\ queue' = IF rs = <<>> THEN queue ELSE rs[Len(rs)].queue
        /\ queue_ptr' = IF rs = <<>> THEN queue_ptr ELSE rs[Len(rs)].ptr
        /\ hist' = hist \o [k \in 1..Cardinality(done) |-> keys]
        /\ writes' = [i \in 1..bank_size |->
                        writes[i] + Cardinality({k \in done : i \in rs[k].rows})]

\* ------------------------------------------------------- tensor shapes
\* A shape is the sequence of a tensor's dimensions; <<>> says that the
\* operation raised.
Max(a, b) == IF a < b THEN b ELSE a

NumRows(shape) == IF Len(shape) = 3 THEN shape[1] * shape[2] ELSE shape[1]

PadLeft(shape, n) ==
    [k \in 1..n |-> IF k <= n - Len(shape) THEN 1 ELSE shape[k - (n - Len(shape))]]

\* The shape of an elementwise operation on tensors of shapes s and t.
Broadcast(s, t) ==
    LET n == Max(Len(s), Len(t))
        ps == PadLeft(s, n)
        pt == PadLeft(t, n)
    IN  IF s = <<>> \/ t = <<>> THEN <<>>
        ELSE IF \A k \in 1..n : ps[k] = pt[k] \/ ps[k] = 1 \/ pt[k] = 1
        THEN [k \in 1..n |-> Max(ps[k], pt[k])]
        ELSE <<>>

\* x.sum(d) for the 0-based dimension d
SumDim(shape, d) ==
    IF shape = <<>> THEN <<>>
    ELSE [k \in 1..(Len(shape) - 1) |-> IF k <= d THEN shape[k] ELSE shape[k + 1]]

\* Pooler.forward on an attention mask and last_hidden_state of the given
\* shapes: the shape of the pooled output.
Pooler(mask, hidden) ==
    IF pooler_type = "cls"
    THEN <<hidden[1], hidden[3]>>
    ELSE Broadcast(SumDim(Broadcast(hidden, mask \o <<1>>), 1),
                   SubSeq(mask, 1, Len(mask) - 1) \o <<1>>)

\* ------------------------------------------------------------ cl_forward
\* The pooled embedding of view v of row i of worker r's batch (view 3 is
\* the sentence rebuilt from the generator's predictions).  The encoder's
\* hidden size is the bank's hidden_len.
Emb(r, i, v) == FillRow(hidden_len, 100 + ((r - 1) * MaxN + (i - 1)) * 4 + v)

\* do_stronger: input_ids = input_ids[:, 0] (attention_mask alike)
TruncateViewsKeepTwo(shape) == <<shape[1], 2, shape[3]>>
TruncateViews(shape) == <<shape[1], shape[3]>>

\* The sentence (row, view) row f of the flattened working batch holds.
SentenceAt(ids, f) ==
    IF Len(ids) = 3
    THEN [row |-> ((f - 1) \div ids[2]) + 1, view |-> (f - 1) % ids[2]]
    ELSE [row |-> f, view |-> 0]

\* pooler_output[:, v] of worker r after the view to (batch_size, num_sent,
\* hidden): row i is row (i - 1) * num_sent + v of the flattened batch.
SplitView(ids, r, batch_size, num_sent, v) ==
    [i \in 1..batch_size |->
        LET s == SentenceAt(ids, (i - 1) * num_sent + v + 1)
        IN  [row |-> Emb(r, s.row, s.view), grad |-> TRUE]]

\* z3 = pooler_mlm_outputs
MlmView(r, batch_size) ==
    [i \in 1..batch_size |-> [row |-> Emb(r, i, 3), grad |-> TRUE]]

\* z3 = stronger_pooler_output[:, 0]
StrongerView(r, batch_size) ==
    [i \in 1..batch_size |-> [row |-> Emb(r, i, 2), grad |-> TRUE]]

\* What all_gather leaves in a slot: a copy that carries no gradient.
Detach(z) == [i \in 1..Len(z) |-> [z[i] EXCEPT !.grad = FALSE]]

\* z_list[dist.get_rank()] = z (ranks are 1-based here)
Splice(z_list, slot, z) == [z_list EXCEPT ![slot] = z]

\* torch.cat(z_list, 0) for slots of n rows each
CatReversed(z_list, n) ==
    [j \in 1..(Len(z_list) * n) |->
        z_list[Len(z_list) - ((j - 1) \div n)][((j - 1) % n) + 1]]
Cat(z_list, n) ==
    [j \in 1..(Len(z_list) * n) |-> z_list[((j - 1) \div n) + 1][((j - 1) % n) + 1]]

\* cls.sim(x.unsqueeze(1), y.unsqueeze(0)): entry (i, j) is the score of row
\* i of x against row j of y, written as the pair it scores.
SimTransposed(x, y) ==
    [i \in 1..Len(y) |-> [j \in 1..Len(x) |-> <<y[i].row, x[j].row>>]]
Sim(x, y) ==
    [i \in 1..Len(x) |-> [j \in 1..Len(y) |-> <<x[i].row, y[j].row>>]]

\* labels = torch.arange(cos_sim.size(0))
Labels(cos_sim) == [j \in 1..Len(cos_sim) |-> j - 1]

\* if mlm_input_ids is not None: ... dequeue_and_enqueue(cls, z1)
MlmBranchAlways(mlm) == TRUE
MlmBranch(mlm) == mlm

\* if cls.model_args.do_stronger: ... dequeue_and_enqueue(cls, z1)
StrongerBranch == do_stronger

\* if dist.is_initialized() and cls.training
GatherBranch(training) == world > 0 /\ training

\* if cls.model_args.do_stronger or cls.model_args.do_mlm
AuxLossBranch == do_stronger \/ do_mlm

Rows(z) == [i \in 1..Len(z) |-> z[i].row]

\* What a pass that raised err leaves for its caller.
Raised(err) ==
    [err |-> err, rs |-> <<>>, keys |-> <<>>, num_sent |-> 0, z1 |-> <<>>,
     z2 |-> <<>>, z3 |-> <<>>, cos_sim |-> <<>>, labels |-> <<>>, collectives |-> <<>>,
     aux_loss |-> FALSE]

\* cl_forward on a batch of shape (batch, views, seq), with or without
\* mlm_input_ids (mlm) and token_type_ids (tti), in training or eval mode, on
\* this worker.
cl_forward(batch, views, seq, mlm, tti, training) ==
    LET batch_size == batch
        strongerErr ==
            IF ~do_stronger THEN "none"
            ELSE IF views < 3 THEN "IndexError"
            ELSE IF ~tti THEN "UnboundLocalError"
            ELSE IF Pooler(<<batch, views, seq>>, <<batch, seq, hidden_len>>) = <<>>
            THEN "RuntimeError"
            ELSE "none"
        ids == IF do_stronger THEN TruncateViews(<<batch, views, seq>>)
               ELSE <<batch, views, seq>>
        num_sent == ids[2]
        flat == <<NumRows(ids), ids[Len(ids)]>>
        pooled == Pooler(flat, <<flat[1], flat[2], hidden_len>>)
        z1 == SplitView(ids, rank, batch_size, num_sent, 0)
        z2 == SplitView(ids, rank, batch_size, num_sent, 1)
        keys == Rows(z1)
        e1 == IF MlmBranch(mlm)
              THEN <<dequeue_and_enqueue(queue, queue_ptr, keys)>> ELSE <<>>
        q1 == IF e1 = <<>> THEN queue ELSE e1[1].queue
        p1 == IF e1 = <<>> THEN queue_ptr ELSE e1[1].ptr
        e2 == IF StrongerBranch
              THEN <<dequeue_and_enqueue(q1, p1, keys)>> ELSE <<>>
        has_z3 == MlmBranch(mlm) \/ StrongerBranch
        gather == GatherBranch(training)
        z3(r) == IF StrongerBranch THEN StrongerView(r, batch_size)
                 ELSE MlmView(r, batch_size)
        list(v) == [r \in 1..world |->
                      Detach(IF v = 3 THEN z3(r)
                             ELSE SplitView(ids, r, batch_size, num_sent, v))]
        g3 == IF ~has_z3 THEN <<>>
              ELSE IF gather /\ num_sent >= 3
              THEN Cat(Splice(list(3), rank, z3(rank)), batch_size)
              ELSE z3(rank)
        g1 == IF gather THEN Cat(Splice(list(0), rank, z1), batch_size) ELSE z1
        g2 == IF gather THEN Cat(Splice(list(1), rank, z2), batch_size) ELSE z2
        cos_sim == Sim(g1, g2)
        body(rs) ==
            IF gather /\ num_sent >= 3 /\ ~has_z3
            THEN [Raised("UnboundLocalError") EXCEPT !.rs = rs, !.keys = keys,
                                                     !.num_sent = num_sent]
            ELSE [err |-> "none", rs |-> rs, keys |-> keys,
                  num_sent |-> num_sent, z1 |-> g1, z2 |-> g2, z3 |-> g3,
                  cos_sim |-> cos_sim, labels |-> Labels(cos_sim),
                  collectives |->
                      IF ~gather THEN <<>>
                      ELSE IF num_sent >= 3 THEN <<"z3", "z1", "z2">>
                      ELSE <<"z1", "z2">>,
                  aux_loss |-> AuxLossBranch]
    IN  IF strongerErr # "none" THEN Raised(strongerErr)
        ELSE IF pooled = <<>> \/ pooled[1] # batch_size * num_sent
        THEN [Raised("RuntimeError") EXCEPT !.num_sent = num_sent]
        ELSE IF num_sent < 2
        THEN [Raised("IndexError") EXCEPT !.num_sent = num_sent]
        ELSE IF e1 # <<>> /\ e1[1].err # "none"
        THEN [Raised(e1[1].err) EXCEPT !.rs = e1, !.keys = keys,
                                       !.num_sent = num_sent]
        ELSE IF e2 # <<>> /\ e2[1].err # "none"
        THEN [Raised(e2[1].err) EXCEPT !.rs = e1 \o e2, !.keys = keys,
                                       !.num_sent = num_sent]
        ELSE body(e1 \o e2)

\* ------------------------------------------------------------ the model
\* No call is in progress: the caller holds no result.
NoCall == [op |-> "idle", err |-> "none", enq |-> 0, keys |-> <<>>, ptr |-> 0]

\* BertForCL.__init__: the queue holds bank_size random normalized rows of
\* width hidden_len and the pointer is 0.
Construct(bs, h, ds, dm, pt, w, rk) ==
    /\ world = w
    /\ rank = rk
    /\ bank_size = bs
    /\ hidden_len = h
    /\ do_stronger = ds
    /\ do_mlm = dm
    /\ pooler_type = pt
    /\ queue = [i \in 1..bs |-> RandRow(i, h)]
    /\ queue_ptr = 0
    /\ hist = <<>>
    /\ writes = [i \in 1..bs |-> 0]
    /\ last = NoCall

Init ==
    \E bs \in 1..MaxBank, h \in 1..MaxHidden, ds \in BOOLEAN, dm \in BOOLEAN,
       pt \in {"cls", "avg"} : Construct(bs, h, ds, dm, pt, 0, 1)

\* A model whose bank alone is exercised (the flags play no part in
\* dequeue_and_enqueue).
InitBank ==
    \E bs \in 1..MaxBank, h \in 1..MaxHidden :
        Construct(bs, h, FALSE, FALSE, "cls", 0, 1)

\* A worker of a distributed run: torch.distributed is initialized.
InitDist ==
    \E bs \in 1..MaxBank, h \in 1..MaxHidden, ds \in BOOLEAN, dm \in BOOLEAN,
       pt \in {"cls", "avg"}, w \in 1..MaxWorld :
      \E rk \in 1..w : Construct(bs, h, ds, dm, pt, w, rk)

\* A caller enqueues a key batch directly; limit caps the number of batches
\* written since construction.
Enqueue(limit) ==
    \E b \in 0..(MaxBank + 1), w \in 1..(MaxHidden + 1) :
        LET keys == KeyBatch(b, w, Len(hist) + 1)
            r == dequeue_and_enqueue(queue, queue_ptr, keys)
        IN  /\ last.op = "idle"
            /\ Len(hist) < limit
            /\ Apply(<<r>>, keys)
            /\ last' = [op |-> "enqueue", err |-> r.err, enq |-> 1,
                        keys |-> keys, ptr |-> queue_ptr]
            /\ UNCHANGED config

\* forward(sent_emb = False): one contrastive pass.
ClForward(limit) ==
    \E batch \in 1..MaxN, views \in 2..3, seq \in 1..MaxSeq, mlm \in BOOLEAN,
       tti \in (IF do_stronger THEN BOOLEAN ELSE {TRUE}), training \in BOOLEAN :
        LET out == cl_forward(batch, views, seq, mlm, tti, training)
        IN  /\ last.op = "idle"
            /\ Len(hist) < limit
            /\ Apply(out.rs, out.keys)
            /\ last' = [op |-> "cl_forward", err |-> out.err,
                        enq |-> Len(out.rs), keys |-> out.keys, ptr |-> queue_ptr,
                        batch |-> batch, views |-> views, seq |-> seq,
                        mlm |-> mlm, tti |-> tti, training |-> training,
                        num_sent |-> out.num_sent, z1 |-> out.z1, z2 |-> out.z2,
                        z3 |-> out.z3,
                        cos_sim |-> out.cos_sim, labels |-> out.labels,
                        collectives |-> out.collectives,
                        aux_loss |-> out.aux_loss]
            /\ UNCHANGED config

\* forward(sent_emb = True): sentemb_forward encodes and pools one view;
\* it reads neither buffer.
SentEmbForward ==
    \E batch \in 1..MaxN, seq \in 1..MaxSeq :
        /\ last.op = "idle"
        /\ last' = [op |-> "sentemb_forward", err |-> "none", enq |-> 0,
                    keys |-> <<>>, ptr |-> queue_ptr, batch |-> batch,
                    seq |-> seq,
                    pooler_output |-> Pooler(<<batch, seq>>, <<batch, seq, hidden_len>>)]
        /\ UNCHANGED <<queue, queue_ptr, hist, writes>>
        /\ UNCHANGED config

\* The call returns (or its exception reaches the caller), and the caller
\* is free to make the next one.
Return ==
    /\ last.op # "idle"
    /\ last' = NoCall
    /\ UNCHANGED <<queue, queue_ptr, hist, writes>>
    /\ UNCHANGED config

Next ==
    \/ Enqueue(MaxPassCalls)
    \/ ClForward(MaxPassCalls)
    \/ SentEmbForward
    \/ Return

Spec == Init /\ [][Next]_vars

NextBank ==
    \/ Enqueue(MaxCalls)
    \/ Return

NextDist ==
    \/ ClForward(MaxPassCalls)
    \/ Return

SpecDist == InitDist /\ [][NextDist]_vars

SpecBank == InitBank /\ [][NextBank]_vars

\* ----------------------------------------------------------- the claims
\* The batch size of the call l records, and whether its keys fit the bank
\* at the pointer the call read: a batch size that divides bank_size, rows
\* of the bank's width, and a write range that ends inside the bank.
CallBatch(l) == Len(l.keys)
Divides(l) == CallBatch(l) >= 1 /\ bank_size % CallBatch(l) = 0
Fits(l) ==
    /\ Divides(l)
    /\ KeyWidth(l.keys) = hidden_len
    /\ l.ptr + CallBatch(l) <= bank_size

\* C1: a call of dequeue_and_enqueue at pointer p with b rows, b dividing
\* bank_size and p + b <= bank_size, leaves rows [p, p + b) equal to the
\* keys row for row, every other row as it was, and the pointer at
\* (p + b) % bank_size.
C1_EnqueueWritesSlice ==
    [][(last'.enq = 1 /\ Fits(last')) =>
        /\ last'.ptr = queue_ptr
        /\ \A i \in 1..bank_size :
              queue'[i] = IF queue_ptr < i /\ i <= queue_ptr + CallBatch(last')
                          THEN last'.keys[i - queue_ptr]
                          ELSE queue[i]
        /\ queue_ptr' = (queue_ptr + CallBatch(last')) % bank_size]_vars

\* A batch of several rows written in the middle of a bank that already
\* holds an earlier batch.
C1_Witness ==
    /\ last.op = "enqueue"
    /\ last.err = "none"
    /\ Fits(last)
    /\ last.ptr > 0
    /\ CallBatch(last) >= 2

\* C2: from construction (ptr = 0), after exactly bank_size / b batches of
\* one size b dividing bank_size the pointer is 0 again, every row has been
\* written exactly once and the bank is the batches in call order.
C2_FullCycle ==
    \A b \in 1..bank_size :
        (/\ bank_size % b = 0
         /\ Len(hist) = bank_size \div b
         /\ \A k \in 1..Len(hist) :
               BatchSize(hist[k]) = b /\ KeyWidth(hist[k]) = hidden_len)
        => /\ queue_ptr = 0
           /\ \A i \in 1..bank_size : writes[i] = 1
           /\ \A i \in 1..bank_size :
                 queue[i] = hist[((i - 1) \div b) + 1][((i - 1) % b) + 1]

\* A bank filled by two or more batches of one size.
C2_Witness ==
    /\ Len(hist) >= 2
    /\ Len(hist) * BatchSize(hist[1]) = bank_size
    /\ \A k \in 1..Len(hist) :
          BatchSize(hist[k]) = BatchSize(hist[1]) /\ KeyWidth(hist[k]) = hidden_len
    /\ last.op = "enqueue"

\* C3: a call whose batch size does not divide bank_size raises and leaves
\* the bank and the pointer as they were.
C3_BadBatchRejected ==
    [][(last'.op = "enqueue" /\ ~Divides(last')) =>
        /\ last'.err # "none"
        /\ queue' = queue
        /\ queue_ptr' = queue_ptr]_vars

\* A batch larger than the bank is rejected by a bank that holds an
\* earlier batch.
C3_Witness ==
    /\ last.op = "enqueue"
    /\ last.err = "AssertionError"
    /\ CallBatch(last) > bank_size
    /\ Len(hist) > 0
    /\ queue_ptr > 0

\* C4: the pointer is in [0, bank_size) and the bank keeps its shape
\* (bank_size, hidden_len).
C4_PointerInRange ==
    /\ queue_ptr \in 0..(bank_size - 1)
    /\ Len(queue) = bank_size
    /\ \A i \in 1..bank_size : Len(queue[i]) = hidden_len

\* The pointer has wrapped to 0 and a later call has failed.
C4_Witness ==
    /\ queue_ptr = 0
    /\ Len(hist) > 0
    /\ last.op = "enqueue"
    /\ last.err # "none"

\* C8 as stated: every call whose batch size divides bank_size finds its
\* write range [ptr, ptr + batch_size) inside the bank, whatever the sizes of
\* the batches before it.
C8_AnySizesAligned ==
    (last.op = "enqueue" /\ Divides(last)) =>
        last.ptr + CallBatch(last) <= bank_size

\* C8 amended: when every batch written so far has the size b of this call,
\* b dividing bank_size, the pointer is a multiple of b and the write range
\* is inside the bank, so keys of the bank's width are written.
C8_OneSizeAligned ==
    (/\ last.op = "enqueue"
     /\ Divides(last)
     /\ \A k \in 1..Len(hist) : BatchSize(hist[k]) = CallBatch(last))
    => /\ last.ptr % CallBatch(last) = 0
       /\ last.ptr + CallBatch(last) <= bank_size
       /\ KeyWidth(last.keys) = hidden_len => last.err = "none"

\* The third batch of one size, written at an aligned pointer past 0.
C8_Witness ==
    /\ last.op = "enqueue"
    /\ last.err = "none"
    /\ Len(hist) >= 3
    /\ \A k \in 1..Len(hist) : BatchSize(hist[k]) = CallBatch(last)
    /\ last.ptr > 0

\* C5: sentemb_forward, and cl_forward without mlm_input_ids when
\* do_stronger is off, leave the bank's rows and the pointer as they were.
C5_ForwardKeepsBank ==
    [][(\/ last'.op = "sentemb_forward"
        \/ last'.op = "cl_forward" /\ ~last'.mlm /\ ~do_stronger) =>
        /\ queue' = queue
        /\ queue_ptr' = queue_ptr]_vars

\* A contrastive pass without auxiliary ids has returned on a model whose
\* bank holds an earlier batch and reads it for the auxiliary loss.
C5_Witness ==
    /\ last.op = "cl_forward"
    /\ ~last.mlm
    /\ ~do_stronger
    /\ last.err = "none"
    /\ last.aux_loss
    /\ Len(hist) > 0
    /\ queue_ptr > 0

\* C6: after the gather every worker's z1 and z2 have world * b rows, row
\* (r - 1) * b + i of z1 and of z2 is worker r's local row i (views 0 and 1),
\* the worker's own slot alone carries the gradient, and the positive of
\* anchor j is column j of the similarity matrix, the column label j names.
C6_GatherInRankOrder ==
    (last.op = "cl_forward" /\ last.err = "none" /\ world > 0 /\ last.training) =>
        LET b == last.batch
            n == world * b
        IN  /\ Len(last.z1) = n
            /\ Len(last.z2) = n
            /\ \A r \in 1..world : \A i \in 1..b :
                  /\ last.z1[(r - 1) * b + i] = [row |-> Emb(r, i, 0), grad |-> r = rank]
                  /\ last.z2[(r - 1) * b + i] = [row |-> Emb(r, i, 1), grad |-> r = rank]
            /\ Len(last.cos_sim) = n
            /\ Len(last.labels) = n
            /\ \A r \in 1..world : \A i \in 1..b :
                  LET j == (r - 1) * b + i
                  IN  last.cos_sim[j][last.labels[j] + 1] = <<Emb(r, i, 0), Emb(r, i, 1)>>

\* The second of several workers has gathered batches of several rows.
C6_Witness ==
    /\ last.op = "cl_forward"
    /\ last.err = "none"
    /\ last.training
    /\ world >= 2
    /\ rank = 2
    /\ last.batch >= 2
    /\ last.collectives # <<>>

\* C7: without torch.distributed, do_mlm and do_stronger, a pass on N
\* sentence pairs returns an N x N matrix whose entry (i, j) scores anchor i
\* against positive j, and the labels 0, 1, ..., N - 1; it returns whenever
\* no auxiliary ids are supplied.
C7_PairMatrixAndLabels ==
    (/\ last.op = "cl_forward"
     /\ world = 0 /\ ~do_mlm /\ ~do_stronger
     /\ last.views = 2) =>
        /\ ~last.mlm => last.err = "none"
        /\ last.err = "none" =>
              /\ Len(last.cos_sim) = last.batch
              /\ \A i \in 1..last.batch :
                    /\ Len(last.cos_sim[i]) = last.batch
                    /\ \A j \in 1..last.batch :
                          last.cos_sim[i][j] = <<Emb(rank, i, 0), Emb(rank, j, 1)>>
              /\ last.labels = [j \in 1..last.batch |-> j - 1]

\* Such a pass on several pairs has returned.
C7_Witness ==
    /\ last.op = "cl_forward"
    /\ world = 0 /\ ~do_mlm /\ ~do_stronger
    /\ last.views = 2
    /\ ~last.mlm
    /\ last.err = "none"
    /\ last.batch >= 2

\* C9: a contrastive pass calls dequeue_and_enqueue at most once, so it
\* writes at most one batch and moves the pointer by at most one batch,
\* whatever do_stronger, do_mlm and the presence of mlm_input_ids.
C9_AtMostOneEnqueue ==
    [][last'.op = "cl_forward" =>
        /\ last'.enq <= 1
        /\ Len(hist') <= Len(hist) + 1
        /\ \/ queue_ptr' = queue_ptr
           \/ queue_ptr' = (queue_ptr + last'.batch) % bank_size]_vars

\* A pass with auxiliary ids has enqueued its z1 once and returned.
C9_Witness ==
    /\ last.op = "cl_forward"
    /\ last.mlm
    /\ last.enq = 1
    /\ last.err = "none"
    /\ Len(hist) > 0

\* C10: with do_stronger and a 3-view batch (token_type_ids supplied) the
\* pass keeps views 0 and 1: num_sent is 2, the view to (batch, num_sent,
\* hidden) succeeds, z1 is view 0 and z2 is view 1.
C10_StrongerKeepsTwoViews ==
    (/\ last.op = "cl_forward"
     /\ do_stronger /\ last.views = 3 /\ last.tti) =>
        /\ last.err = "none"
        /\ last.num_sent = 2
        /\ last.z1 = [i \in 1..last.batch |-> [row |-> Emb(rank, i, 0), grad |-> TRUE]]
        /\ last.z2 = [i \in 1..last.batch |-> [row |-> Emb(rank, i, 1), grad |-> TRUE]]

\* C11: in a distributed run every pass of a worker in training mode issues
\* the all-gathers z3 (when the batch has 3 views or more), z1, z2, once
\* each and in that order, and completes them; a pass in eval mode issues
\* none.  Stated for passes that do_stronger and a failed enqueue do not
\* stop: do_stronger is off, and keys that are enqueued fit the bank.
C11_EveryWorkerGathers ==
    (/\ last.op = "cl_forward"
     /\ world > 0
     /\ ~do_stronger
     /\ last.mlm => Fits(last)) =>
        /\ last.err = "none"
        /\ last.collectives =
              IF ~last.training THEN <<>>
              ELSE IF last.views >= 3 THEN <<"z3", "z1", "z2">>
              ELSE <<"z1", "z2">>

\* C12: a pass that returns adds the auxiliary bank loss exactly when it has
\* enqueued its z1: the guard of the enqueue and the guard of the loss agree
\* for every do_stronger, do_mlm and presence of mlm_input_ids.
C12_EnqueueIffAuxLoss ==
    (last.op = "cl_forward" /\ last.err = "none") =>
        (last.aux_loss <=> last.enq >= 1)

====
